---------------------------- MODULE Spec2Model ----------------------------
(***************************************************************************)
(* A model of zombiezen/pql:                                               *)
(*   - the in-memory evaluator (Eval, eval, evalExpr and its helpers),     *)
(*   - the translate loop of the command line tool (run),                  *)
(*   - the multiReadCloser of the command line tool.                       *)
(* Strings are sequences of one-character strings, so that concatenation,  *)
(* prefix cutting and integer parsing are computed, not assumed.           *)
(***************************************************************************)
EXTENDS Integers, Sequences, FiniteSets, TLC

VARIABLES
    \* ---- evaluator (Eval) ----
    tables,        \* the caller's []*Table: Name, Columns, Data (a slice header)
    mem,           \* the backing arrays of every [][]string, by array id
    callerTables,  \* what the caller's tables held when Eval was called
    program,       \* the name of the source table of the parsed program
    curr,          \* eval's local variable curr
    prev,          \* the table the last operator was applied to (by value)
    lastOp,        \* the last operator eval applied
    nops,          \* how many operators eval has applied
    pc,            \* where Eval is: "call", "ops", "returned", "panicked"
    ret,           \* what Eval returned: [isNil, table, err]
    \* ---- the translate loop (run) ----
    input,         \* the lines the scanner delivers
    lineNo,        \* how many of them run has scanned
    sb,            \* the strings.Builder of run
    finalError,    \* run's finalError: "" is nil
    attempted,     \* the statements handed to pql.Compile, in order
    output,        \* what run wrote to output, in order
    logged,        \* the statements whose error went to logError, in order
    runPc,         \* "idle", "scan", "done"
    runRet,        \* what run returned: "" is nil
    \* ---- multiReadCloser ----
    mrcReaders,    \* mrc.readers: the readers not yet finished
    rdSize,        \* how many bytes each underlying reader holds
    rdLeft,        \* how many of them it has yet to deliver
    rdClosed,      \* how often Close was called on each underlying reader
    rdEOF,         \* whether the underlying reader has reported io.EOF
    delivered,     \* the bytes Read has handed out, as <<reader, index>>
    lastRead,      \* the result of the last Read: [n, err]
    closeCalled    \* whether Close has returned

evalVars == <<tables, mem, callerTables, program, curr, prev, lastOp, nops, pc, ret>>
runVars  == <<input, lineNo, sb, finalError, attempted, output, logged, runPc, runRet>>
mrcVars  == <<mrcReaders, rdSize, rdLeft, rdClosed, rdEOF, delivered, lastRead, closeCalled>>

vars == <<evalVars, runVars, mrcVars>>

(***************************************************************************)
(* Bounds of the model.                                                    *)
(***************************************************************************)
MaxRows == 2      \* rows of a caller-provided table
MaxOps  == 2      \* operators of a program
MaxLines == 3     \* lines of the input of run
MaxReaders == 2   \* readers of a multiReadCloser
MaxBytes == 2     \* bytes an underlying reader holds

(***************************************************************************)
(* Strings.                                                                *)
(***************************************************************************)
Str0 == <<"0">>
Str1 == <<"1">>
StrEmpty == <<>>

Digits == {"0", "1", "2", "3", "4", "5", "6", "7", "8", "9"}

DigitVal(c) ==
    CASE c = "0" -> 0 [] c = "1" -> 1 [] c = "2" -> 2 [] c = "3" -> 3
      [] c = "4" -> 4 [] c = "5" -> 5 [] c = "6" -> 6 [] c = "7" -> 7
      [] c = "8" -> 8 [] c = "9" -> 9

DigitChar(d) ==
    CASE d = 0 -> "0" [] d = 1 -> "1" [] d = 2 -> "2" [] d = 3 -> "3"
      [] d = 4 -> "4" [] d = 5 -> "5" [] d = 6 -> "6" [] d = 7 -> "7"
      [] d = 8 -> "8" [] d = 9 -> "9"

RECURSIVE DigitsVal(_)
DigitsVal(s) ==
    IF s = <<>> THEN 0
    ELSE 10 * DigitsVal(SubSeq(s, 1, Len(s) - 1)) + DigitVal(s[Len(s)])

\* strconv.Atoi: an optional sign, then one or more decimal digits.
Atoi(s) ==
    LET signed == Len(s) > 0 /\ s[1] \in {"+", "-"}
        body   == IF signed THEN Tail(s) ELSE s
    IN  IF body = <<>> \/ \E i \in 1..Len(body) : body[i] \notin Digits
        THEN [err |-> "invalid syntax", n |-> 0]
        ELSE [err |-> "",
              n   |-> IF signed /\ s[1] = "-" THEN 0 - DigitsVal(body)
                      ELSE DigitsVal(body)]

\* strconv.Itoa of a non-negative number (a length).
RECURSIVE Itoa(_)
Itoa(n) ==
    IF n < 10 THEN <<DigitChar(n)>>
    ELSE Itoa(n \div 10) \o <<DigitChar(n % 10)>>

stringToBool(s) == s # StrEmpty /\ s # Str0

boolToString(b) == IF b THEN Str1 ELSE Str0

\* strings.Join(args, "")
RECURSIVE Join(_)
Join(args) == IF args = <<>> THEN <<>> ELSE Head(args) \o Join(Tail(args))

Min(a, b) == IF a < b THEN a ELSE b

Range(f) == { f[i] : i \in DOMAIN f }

(***************************************************************************)
(* Expressions of the parser's AST, as records of one shape:               *)
(*   k: the node type, op: the operator token or function name,            *)
(*   v: a literal's Value or an identifier's Parts, xs: the operands.      *)
(***************************************************************************)
Lit(s)           == [k |-> "BasicLit", op |-> "", v |-> s, xs |-> <<>>]
QIdent(parts)    == [k |-> "QualifiedIdent", op |-> "", v |-> parts, xs |-> <<>>]
Ident(n)         == QIdent(<<n>>)
Unary(op, x)     == [k |-> "UnaryExpr", op |-> op, v |-> <<>>, xs |-> <<x>>]
Binary(op, x, y) == [k |-> "BinaryExpr", op |-> op, v |-> <<>>, xs |-> <<x, y>>]
InExpr(x, vals)  == [k |-> "InExpr", op |-> "in", v |-> <<>>, xs |-> <<x>> \o vals]
Paren(x)         == [k |-> "ParenExpr", op |-> "", v |-> <<>>, xs |-> <<x>>]
Call(f, args)    == [k |-> "CallExpr", op |-> f, v |-> <<>>, xs |-> args]

Ok(s)    == [err |-> "", val |-> s]
Fail(m)  == [err |-> m, val |-> StrEmpty]

\* The functions of evalFuncs.
evalFuncNames == {"not", "strcat"}

evalFuncs(name, args) ==
    IF name = "not"
    THEN IF Len(args) # 1 THEN Fail("not(x) takes exactly one argument")
         ELSE Ok(boolToString(~stringToBool(args[1])))
    ELSE IF Len(args) = 0 THEN Fail("strcat(x, ...) takes at least one argument")
         ELSE Ok(Join(args))

\* A plausible bug: no short circuit, the right operand is always evaluated.
NoShortCircuit(op, a) == FALSE

\* The short-circuit switch of a BinaryExpr: TRUE when a is the result and
\* the right operand is not evaluated.
ShortCircuit(op, a) ==
    \/ op = "and" /\ ~stringToBool(a)
    \/ op = "or" /\ stringToBool(a)

\* The result switch of a BinaryExpr once both operands are evaluated.
BinaryResult(op, a, b) ==
    CASE op = "==" -> Ok(boolToString(a = b))
      [] op = "!=" -> Ok(boolToString(a # b))
      [] op \in {"and", "or"} -> Ok(b)
      [] OTHER -> Fail("unhandled binary operator")

RECURSIVE evalExpr(_, _)
RECURSIVE evalIn(_, _, _)
RECURSIVE evalArgs(_, _, _)

\* The loop of the InExpr case over x.Vals.
evalIn(a, vals, idents) ==
    IF vals = <<>> THEN Ok(boolToString(FALSE))
    ELSE LET b == evalExpr(Head(vals), idents)
         IN  IF b.err # "" THEN Fail(b.err)
             ELSE IF a = b.val THEN Ok(boolToString(TRUE))
             ELSE evalIn(a, Tail(vals), idents)

\* The loop of the CallExpr case over x.Args: the evaluated arguments, or
\* the first error.
evalArgs(args, idents, acc) ==
    IF args = <<>> THEN [err |-> "", vals |-> acc]
    ELSE LET aa == evalExpr(Head(args), idents)
         IN  IF aa.err # "" THEN [err |-> aa.err, vals |-> <<>>]
             ELSE evalArgs(Tail(args), idents, Append(acc, aa.val))

evalExpr(x, idents) ==
    CASE x.k = "ParenExpr" -> evalExpr(x.xs[1], idents)
      [] x.k = "BasicLit" -> Ok(x.v)
      [] x.k = "QualifiedIdent" ->
            IF Len(x.v) # 1 THEN Fail("qualified identifiers not supported")
            ELSE IF x.v[1] \notin DOMAIN idents THEN Fail("unrecognized identifier")
            ELSE Ok(idents[x.v[1]])
      [] x.k = "UnaryExpr" ->
            LET inner == evalExpr(x.xs[1], idents)
            IN  IF inner.err # "" THEN Fail(inner.err)
                ELSE CASE x.op = "+" -> Ok(inner.val)
                       [] x.op = "-" ->
                            IF Len(inner.val) > 0 /\ inner.val[1] = "-"
                            THEN Ok(Tail(inner.val))
                            ELSE Ok(<<"-">> \o inner.val)
                       [] OTHER -> Fail("unhandled unary operator")
      [] x.k = "BinaryExpr" ->
            LET a == evalExpr(x.xs[1], idents)
            IN  IF a.err # "" THEN Fail(a.err)
                ELSE IF ShortCircuit(x.op, a.val) THEN Ok(a.val)
                ELSE LET b == evalExpr(x.xs[2], idents)
                     IN  IF b.err # "" THEN Fail(b.err)
                         ELSE BinaryResult(x.op, a.val, b.val)
      [] x.k = "InExpr" ->
            LET a == evalExpr(x.xs[1], idents)
            IN  IF a.err # "" THEN Fail(a.err)
                ELSE evalIn(a.val, Tail(x.xs), idents)
      [] x.k = "CallExpr" ->
            IF x.op \notin evalFuncNames THEN Fail("unknown function")
            ELSE LET args == evalArgs(x.xs, idents, <<>>)
                 IN  IF args.err # "" THEN Fail(args.err)
                     ELSE evalFuncs(x.op, args.vals)
      [] OTHER -> Fail("unhandled expression")


(***************************************************************************)
(* Tables.  A Table's Data is a slice header [arr, len] into mem; the      *)
(* slices of the program all start at offset 0, so a slice's capacity is   *)
(* the length of its backing array.                                        *)
(***************************************************************************)
Rows(t, m) == SubSeq(m[t.Data.arr], 1, t.Data.len)

\* A table by value: its columns and its rows.
View(t, m) == [Columns |-> t.Columns, Data |-> Rows(t, m)]

CallerView(ts, m) ==
    [i \in 1..Len(ts) |->
        [Name |-> ts[i].Name, Columns |-> ts[i].Columns, Data |-> Rows(ts[i], m)]]

NoTable == [Columns |-> <<>>, Data |-> <<>>]
NoOp    == [k |-> "none", x |-> Lit(StrEmpty)]

\* append(s, row): in place when the backing array has room, in a new
\* backing array otherwise.
append(s, row, m) ==
    IF s.len < Len(m[s.arr])
    THEN [slice |-> [arr |-> s.arr, len |-> s.len + 1],
          mem   |-> [m EXCEPT ![s.arr] = SubSeq(m[s.arr], 1, s.len) \o <<row>>
                                          \o SubSeq(m[s.arr], s.len + 2, Len(m[s.arr]))]]
    ELSE [slice |-> [arr |-> Len(m) + 1, len |-> s.len + 1],
          mem   |-> Append(m, SubSeq(m[s.arr], 1, s.len) \o <<row>>)]

\* A plausible bug: filtering in place, newTable.Data = curr.Data[:0].
MakeRowsInPlace(c, m) ==
    [slice |-> [arr |-> c.Data.arr, len |-> 0], mem |-> m]

\* A backing array of n nil rows.
RECURSIVE NilRows(_)
NilRows(n) == IF n = 0 THEN <<>> ELSE Append(NilRows(n - 1), <<>>)

\* make([][]string, 0, len(curr.Data)): a fresh backing array.
MakeRows(c, m) ==
    [slice |-> [arr |-> Len(m) + 1, len |-> 0],
     mem   |-> Append(m, NilRows(c.Data.len))]

\* The identifiers a where operator starts from.
WhereIdents == ("null" :> StrEmpty) @@ ("true" :> Str1) @@ ("false" :> Str0)

\* "Fill in variables for current row": idents[curr.Columns[i]] = val for
\* every cell of the row; indexing Columns past its end panics.
RECURSIVE fillIdents(_, _, _, _)
fillIdents(idents, cols, row, i) ==
    IF i > Len(row) THEN [panic |-> FALSE, idents |-> idents]
    ELSE IF i > Len(cols) THEN [panic |-> TRUE, idents |-> idents]
    ELSE fillIdents((cols[i] :> row[i]) @@ idents, cols, row, i + 1)

\* The row loop of the where operator.  src is the slice header the range
\* statement copied, dst is newTable.Data, idents is the one map shared by
\* all iterations.
RECURSIVE whereLoop(_, _, _, _, _, _, _)
whereLoop(Predicate, cols, src, i, idents, dst, m) ==
    IF i > src.len THEN [status |-> "ok", err |-> "", Data |-> dst, mem |-> m]
    ELSE LET row == m[src.arr][i]
             f   == fillIdents(idents, cols, row, 1)
         IN  IF f.panic
             THEN [status |-> "panic", err |-> "index out of range",
                   Data |-> dst, mem |-> m]
             ELSE LET result == evalExpr(Predicate, f.idents)
                  IN  IF result.err # ""
                      THEN [status |-> "error", err |-> result.err,
                            Data |-> dst, mem |-> m]
                      ELSE IF stringToBool(result.val)
                      THEN LET a == append(dst, row, m)
                           IN  whereLoop(Predicate, cols, src, i + 1, f.idents,
                                         a.slice, a.mem)
                      ELSE whereLoop(Predicate, cols, src, i + 1, f.idents, dst, m)

\* case *parser.WhereOperator
evalWhere(c, Predicate, m) ==
    LET new == MakeRows(c, m)
        r   == whereLoop(Predicate, c.Columns, c.Data, 1, WhereIdents,
                         new.slice, new.mem)
    IN  [status |-> r.status, err |-> r.err, mem |-> r.mem,
         table |-> [Columns |-> c.Columns, Data |-> r.Data]]

\* A plausible bug: the slice bound is one too large (clamped to the length).
TakeBoundOffByOne(n, len) == Min(n + 1, len)

\* min(n, len(curr.Data))
TakeBound(n, len) == Min(n, len)

\* case *parser.TakeOperator
evalTake(c, RowCount, m) ==
    LET rowCount == evalExpr(RowCount, <<>>)
        n        == Atoi(rowCount.val)
    IN  IF rowCount.err # ""
        THEN [status |-> "error", err |-> rowCount.err, mem |-> m, table |-> c]
        ELSE IF n.err # ""
        THEN [status |-> "error", err |-> n.err, mem |-> m, table |-> c]
        ELSE IF n.n < 0
        THEN [status |-> "error", err |-> "negative row count", mem |-> m, table |-> c]
        ELSE [status |-> "ok", err |-> "", mem |-> m,
              table |-> [Columns |-> c.Columns,
                         Data |-> [arr |-> c.Data.arr,
                                   len |-> TakeBound(n.n, c.Data.len)]]]

\* case *parser.CountOperator
evalCount(c, m) ==
    [status |-> "ok", err |-> "", mem |-> Append(m, << <<Itoa(c.Data.len)>> >>),
     table |-> [Columns |-> << "count()" >>,
                Data |-> [arr |-> Len(m) + 1, len |-> 1]]]

\* One iteration of eval's loop over x.Operators.
evalOp(c, op, m) ==
    CASE op.k = "count" -> evalCount(c, m)
      [] op.k = "take"  -> evalTake(c, op.x, m)
      [] op.k = "where" -> evalWhere(c, op.x, m)
      [] OTHER -> [status |-> "error", err |-> "unhandled operator",
                   mem |-> m, table |-> c]

\* tableMap[name]: the last table of that name, 0 when there is none.
tableMap(ts, name) ==
    LET hits == {i \in 1..Len(ts) : ts[i].Name = name}
    IN  IF hits = {} THEN 0 ELSE CHOOSE i \in hits : \A j \in hits : j <= i

(***************************************************************************)
(* The inputs of the model.                                                *)
(***************************************************************************)
ColumnSets == { <<"a">>, <<"a", "b">>, <<"a", "true">> }
CellVals   == { Str0, Str1 }
\* Rows of one and of two cells: with the column sets above, tables whose
\* rows have as many cells as there are columns, fewer, or more.
RowSet     == { <<c>> : c \in CellVals } \cup { <<c, d>> : c \in CellVals, d \in CellVals }
DataSets   == UNION { [1..n -> RowSet] : n \in 0..MaxRows }

\* A second caller table: one of the same name as the first, which takes
\* its place in the table map, and one of another name.  It accompanies
\* the first tables of at most one row.
ExtraTables ==
    { [Name |-> "T", Columns |-> <<"a">>, Data |-> << <<Str1>>, <<Str0>> >>],
      [Name |-> "U", Columns |-> <<"b">>, Data |-> << <<Str1>> >>] }

TakeArgs ==
    { Lit(Str1), Unary("-", Lit(Str1)), Lit(<<"x">>) }

Preds ==
    { Ident("a"), Ident("b"), Ident("true"),
      Binary("and", Ident("a"), Ident("b")),
      Binary("or", Ident("a"), Call("tolower", <<Ident("a")>>)),
      Binary("==",
             Call("not", <<InExpr(Ident("a"), <<Lit(Str0), Ident("null")>>)>>),
             Unary("-", Lit(<<"-", "1">>))) }

Operators ==
    { [k |-> "count", x |-> Lit(StrEmpty)], [k |-> "sort", x |-> Lit(StrEmpty)] }
    \cup { [k |-> "take", x |-> e] : e \in TakeArgs }
    \cup { [k |-> "where", x |-> e] : e \in Preds }

SourceNames == {"T", "U", "V"}

(***************************************************************************)
(* Eval as a state machine: the call, one step per operator, the return.   *)
(***************************************************************************)
EvalInit ==
    /\ \E cols \in ColumnSets, data \in DataSets :
        LET first == [Name |-> "T", Columns |-> cols,
                      Data |-> [arr |-> 1, len |-> Len(data)]]
        IN  \/ tables = <<first>> /\ mem = <<data>>
            \/ /\ Len(data) <= 1
               /\ \E e \in ExtraTables :
                    /\ tables = <<first, [Name |-> e.Name, Columns |-> e.Columns,
                                          Data |-> [arr |-> 2, len |-> Len(e.Data)]]>>
                    /\ mem = <<data, e.Data>>
    /\ callerTables = CallerView(tables, mem)
    /\ program \in SourceNames
    /\ curr = [Columns |-> <<>>, Data |-> [arr |-> 0, len |-> 0]]
    /\ prev = NoTable
    /\ lastOp = NoOp
    /\ nops = 0
    /\ pc = "call"
    /\ ret = [isNil |-> TRUE, table |-> NoTable, err |-> ""]

\* Eval not called.
EvalIdle ==
    /\ tables = <<>> /\ mem = <<>> /\ callerTables = <<>>
    /\ program = ""
    /\ curr = [Columns |-> <<>>, Data |-> [arr |-> 0, len |-> 0]]
    /\ prev = NoTable /\ lastOp = NoOp /\ nops = 0
    /\ pc = "idle"
    /\ ret = [isNil |-> TRUE, table |-> NoTable, err |-> ""]

\* Eval up to the loop of eval: the table map and the source lookup.
EvalCall ==
    /\ pc = "call"
    /\ LET i == tableMap(tables, program)
       IN  IF i = 0
           THEN /\ pc' = "returned"
                /\ ret' = [isNil |-> TRUE, table |-> NoTable, err |-> "unknown table"]
                /\ curr' = curr
           ELSE /\ pc' = "ops"
                /\ curr' = [Columns |-> tables[i].Columns, Data |-> tables[i].Data]
                /\ ret' = ret
    /\ UNCHANGED <<tables, mem, callerTables, program, prev, lastOp, nops>>
    /\ UNCHANGED <<runVars, mrcVars>>

\* One operator of the program, whatever its kind.
Step(op) ==
    /\ pc = "ops"
    /\ nops < MaxOps
    /\ LET r == evalOp(curr, op, mem)
       IN  /\ mem' = r.mem
           /\ prev' = View(curr, mem)
           /\ lastOp' = op
           /\ nops' = nops + 1
           /\ CASE r.status = "ok" ->
                     /\ curr' = r.table
                     /\ pc' = "ops"
                     /\ ret' = ret
                [] r.status = "error" ->
                     /\ curr' = curr
                     /\ pc' = "returned"
                     /\ ret' = [isNil |-> TRUE, table |-> NoTable, err |-> r.err]
                [] OTHER ->
                     /\ curr' = curr
                     /\ pc' = "panicked"
                     /\ ret' = ret
    /\ UNCHANGED <<tables, callerTables, program>>
    /\ UNCHANGED <<runVars, mrcVars>>

OpCount == \E op \in Operators : op.k = "count" /\ Step(op)
OpTake  == \E op \in Operators : op.k = "take" /\ Step(op)
OpWhere == \E op \in Operators : op.k = "where" /\ Step(op)
OpOther == \E op \in Operators : op.k \notin {"count", "take", "where"} /\ Step(op)

\* The end of the operators: return curr, nil.
EvalReturn ==
    /\ pc = "ops"
    /\ pc' = "returned"
    /\ ret' = [isNil |-> FALSE, table |-> View(curr, mem), err |-> ""]
    /\ UNCHANGED <<tables, mem, callerTables, program, curr, prev, lastOp, nops>>
    /\ UNCHANGED <<runVars, mrcVars>>

(***************************************************************************)
(* The translate loop of the command line tool: run.                       *)
(* A source text is a sequence of characters: "g" and "b" are tokens (a    *)
(* statement holding a "b" does not compile), ";" ends a statement, "("    *)
(* and ")" nest, the line feed is white space.                             *)
(***************************************************************************)
NL == "\n"

\* parser.SplitStatements: the substrings between the top-level semicolons,
\* the text after the last one being the last element.
RECURSIVE splitFrom(_, _, _, _, _)
splitFrom(text, i, start, depth, acc) ==
    IF i > Len(text) THEN Append(acc, SubSeq(text, start, Len(text)))
    ELSE CASE text[i] = "(" -> splitFrom(text, i + 1, start, depth + 1, acc)
           [] text[i] = ")" ->
                splitFrom(text, i + 1, start, IF depth > 0 THEN depth - 1 ELSE 0, acc)
           [] text[i] = ";" /\ depth = 0 ->
                splitFrom(text, i + 1, i + 1, 0, Append(acc, SubSeq(text, start, i - 1)))
           [] OTHER -> splitFrom(text, i + 1, start, depth, acc)

SplitStatements(text) == splitFrom(text, 1, 1, 0, <<>>)

\* parser.Scan: the tokens of a text, white space skipped.
Scan(text) == SelectSeq(text, LAMBDA c : c # NL)

\* pql.Compile: the SQL of a statement, or an error.  "g" is a token of a
\* well-formed statement; a statement with no token at all (no table name)
\* or with any other token has a diagnostic and yields no SQL.
Compile(stmt) ==
    LET toks == Scan(stmt)
    IN  IF toks # <<>> /\ \A i \in 1..Len(toks) : toks[i] = "g"
        THEN [err |-> "", sql |-> <<"S", "Q", "L", ":">> \o toks]
        ELSE [err |-> "diagnostic", sql |-> <<>>]

CompileError == "one or more statements could not be compiled"

\* A plausible bug: break instead of continue, the statements after a
\* failing one are dropped.
RECURSIVE compileEachBreak(_, _)
compileEachBreak(stmts, st) ==
    IF stmts = <<>> THEN st
    ELSE LET c == Compile(Head(stmts))
         IN  IF c.err # ""
             THEN [st EXCEPT !.attempted = Append(@, Head(stmts)),
                             !.logged = Append(@, Head(stmts)),
                             !.finalError = CompileError]
             ELSE compileEachBreak(Tail(stmts),
                     [st EXCEPT !.attempted = Append(@, Head(stmts)),
                                !.output = Append(@, c.sql)])

\* The loop over statements[:len(statements)-1] of run.
RECURSIVE compileEach(_, _)
compileEach(stmts, st) ==
    IF stmts = <<>> THEN st
    ELSE LET c == Compile(Head(stmts))
         IN  IF c.err # ""
             THEN compileEach(Tail(stmts),
                     [st EXCEPT !.attempted = Append(@, Head(stmts)),
                                !.logged = Append(@, Head(stmts)),
                                !.finalError = CompileError])
             ELSE compileEach(Tail(stmts),
                     [st EXCEPT !.attempted = Append(@, Head(stmts)),
                                !.output = Append(@, c.sql)])

LineSet ==
    { <<>>, <<"g", ";">>, <<"b", ";">>, <<"g">>, <<"b", ";", "g", ";">>,
      <<"(", ";">>, <<")", ";", "b">> }

Inputs == UNION { [1..n -> LineSet] : n \in 0..MaxLines }

RunInit ==
    /\ input \in Inputs
    /\ lineNo = 0
    /\ sb = <<>>
    /\ finalError = ""
    /\ attempted = <<>> /\ output = <<>> /\ logged = <<>>
    /\ runPc = "scan"
    /\ runRet = ""

\* run not called.
RunIdle ==
    /\ input = <<>> /\ lineNo = 0 /\ sb = <<>> /\ finalError = ""
    /\ attempted = <<>> /\ output = <<>> /\ logged = <<>>
    /\ runPc = "idle" /\ runRet = ""

\* One iteration of "for scanner.Scan()".
RunScanLine ==
    /\ runPc = "scan"
    /\ lineNo < Len(input)
    /\ lineNo' = lineNo + 1
    /\ LET text       == sb \o input[lineNo + 1] \o <<NL>>
           statements == SplitStatements(text)
       IN  IF Len(statements) = 1
           THEN /\ sb' = text
                /\ UNCHANGED <<attempted, output, logged, finalError>>
           ELSE LET st == compileEach(
                            SubSeq(statements, 1, Len(statements) - 1),
                            [attempted |-> attempted, output |-> output,
                             logged |-> logged, finalError |-> finalError])
                IN  /\ attempted' = st.attempted
                    /\ output' = st.output
                    /\ logged' = st.logged
                    /\ finalError' = st.finalError
                    /\ sb' = statements[Len(statements)]
    /\ UNCHANGED <<input, runPc, runRet>>
    /\ UNCHANGED <<evalVars, mrcVars>>

\* After the loop: the text left in sb, then return.
RunFinish ==
    /\ runPc = "scan"
    /\ lineNo = Len(input)
    /\ runPc' = "done"
    /\ IF Len(Scan(sb)) > 0
       THEN LET c == Compile(sb)
            IN  /\ attempted' = Append(attempted, sb)
                /\ IF c.err # ""
                   THEN /\ logged' = Append(logged, sb)
                        /\ output' = output
                        /\ runRet' = CompileError
                   ELSE /\ logged' = logged
                        /\ output' = Append(output, c.sql)
                        /\ runRet' = finalError
       ELSE /\ runRet' = finalError
            /\ UNCHANGED <<attempted, output, logged>>
    /\ UNCHANGED <<input, lineNo, sb, finalError>>
    /\ UNCHANGED <<evalVars, mrcVars>>

(***************************************************************************)
(* multiReadCloser.  An underlying reader holds rdSize bytes; a Read of it *)
(* hands out some of the bytes left (or none), reports io.EOF with the     *)
(* last ones or after them, or fails with another error.                   *)
(***************************************************************************)
\* The results readers[0].Read(p) can have for a reader with `left` bytes:
\* [n, err], err being "" (nil), "EOF" or "err".
UnderlyingReads(left) ==
    { [n |-> k, err |-> ""] : k \in 0..left }
    \cup { [n |-> left, err |-> "EOF"] }
    \cup { [n |-> 0, err |-> "err"] }

\* The bytes k+1 .. k+n of reader r.
Bytes(r, k, n) == [i \in 1..n |-> <<r, k + i>>]

\* mrc.readers[0].Close()
CloseHead(closed, r) == [closed EXCEPT ![r] = @ + 1]

\* "if err == io.EOF && len(mrc.readers) > 0 { err = nil }"
ReadErr(err, remaining) == IF err = "EOF" /\ remaining > 0 THEN "" ELSE err

\* The loop of Read: every state it can return in, from the state st =
\* [readers, left, closed, eof, delivered, result].
RECURSIVE readLoop(_)
readLoop(st) ==
    IF st.readers = <<>>
    THEN { [st EXCEPT !.result = [n |-> 0, err |-> "EOF"]] }
    ELSE LET r == Head(st.readers)
         IN  UNION {
               LET atEOF == u.err = "EOF"
                   after == [st EXCEPT
                               !.left[r] = @ - u.n,
                               !.delivered = @ \o Bytes(r, rdSize[r] - st.left[r], u.n),
                               !.eof[r] = @ \/ atEOF,
                               !.closed = IF atEOF THEN CloseHead(@, r) ELSE @,
                               !.readers = IF atEOF THEN Tail(@) ELSE @]
               IN  IF u.n > 0 \/ u.err # "EOF"
                   THEN { [after EXCEPT
                             !.result = [n |-> u.n,
                                         err |-> ReadErr(u.err, Len(after.readers))]] }
                   ELSE readLoop(after)
               : u \in UnderlyingReads(st.left[r]) }

\* A plausible bug: Close closes every reader it was built with, the ones
\* Read has closed already too.
CloseTargetsAll(readers) == DOMAIN rdSize

\* The readers Close ranges over: mrc.readers.
CloseTargets(readers) == Range(readers)

MrcInit ==
    /\ \E n \in 0..MaxReaders :
        /\ mrcReaders = [i \in 1..n |-> i]
        /\ rdSize \in [1..n -> 0..MaxBytes]
        /\ rdLeft = rdSize
        /\ rdClosed = [i \in 1..n |-> 0]
        /\ rdEOF = [i \in 1..n |-> FALSE]
    /\ delivered = <<>>
    /\ lastRead = [n |-> 0, err |-> ""]
    /\ closeCalled = FALSE

\* No multiReadCloser.
MrcIdle ==
    /\ mrcReaders = <<>> /\ rdSize = <<>> /\ rdLeft = <<>>
    /\ rdClosed = <<>> /\ rdEOF = <<>>
    /\ delivered = <<>>
    /\ lastRead = [n |-> 0, err |-> ""]
    /\ closeCalled = FALSE

\* func (mrc *multiReadCloser) Read(p []byte) (n int, err error)
MrcRead ==
    /\ \E st \in readLoop([readers |-> mrcReaders, left |-> rdLeft,
                           closed |-> rdClosed, eof |-> rdEOF,
                           delivered |-> delivered,
                           result |-> [n |-> 0, err |-> ""]]) :
        /\ mrcReaders' = st.readers
        /\ rdLeft' = st.left
        /\ rdClosed' = st.closed
        /\ rdEOF' = st.eof
        /\ delivered' = st.delivered
        /\ lastRead' = st.result
    /\ UNCHANGED <<rdSize, closeCalled>>
    /\ UNCHANGED <<evalVars, runVars>>

\* func (mrc *multiReadCloser) Close() error
MrcClose ==
    /\ rdClosed' = [r \in DOMAIN rdClosed |->
                        IF r \in CloseTargets(mrcReaders) THEN rdClosed[r] + 1
                        ELSE rdClosed[r]]
    /\ mrcReaders' = <<>>
    /\ closeCalled' = TRUE
    /\ UNCHANGED <<rdSize, rdLeft, rdEOF, delivered, lastRead>>
    /\ UNCHANGED <<evalVars, runVars>>

(***************************************************************************)
(* The specifications: one per program part.                               *)
(***************************************************************************)
Init == EvalInit /\ RunIdle /\ MrcIdle

Next == EvalCall \/ OpCount \/ OpTake \/ OpWhere \/ OpOther \/ EvalReturn

Spec == Init /\ [][Next]_vars

InitRun == EvalIdle /\ RunInit /\ MrcIdle

NextRun == RunScanLine \/ RunFinish

SpecRun == InitRun /\ [][NextRun]_vars

InitMrc == EvalIdle /\ RunIdle /\ MrcInit

NextMrc == MrcRead \/ MrcClose

SpecMrc == InitMrc /\ [][NextMrc]_vars

(***************************************************************************)
(* Reference notions the claims about the evaluator are stated with.       *)
(***************************************************************************)
\* The bindings of one row taken alone: the three constants, then the
\* row's own cells under the names of their columns.
RowIdents(cols, row) ==
    LET n == Min(Len(cols), Len(row))
    IN  [name \in DOMAIN WhereIdents \cup { cols[i] : i \in 1..n } |->
            IF \E i \in 1..n : cols[i] = name
            THEN row[CHOOSE i \in 1..n :
                        cols[i] = name /\ \A j \in 1..n : cols[j] = name => j <= i]
            ELSE WhereIdents[name]]

RowEval(P, cols, row) == evalExpr(P, RowIdents(cols, row))

\* A table given by value, laid out in a memory of its own.
AsTable(cols, data) == [Columns |-> cols, Data |-> [arr |-> 1, len |-> Len(data)]]

\* where P applied to a table given by value: [status, table by value].
WhereOf(cols, data, P) ==
    LET r == evalWhere(AsTable(cols, data), P, <<data>>)
    IN  [status |-> r.status,
         table  |-> IF r.status = "ok" THEN View(r.table, r.mem) ELSE NoTable]

\* The bindings the row loop of where holds when it evaluates row i.
RECURSIVE identsAt(_, _, _)
identsAt(cols, data, i) ==
    fillIdents(IF i = 1 THEN WhereIdents ELSE identsAt(cols, data, i - 1).idents,
               cols, data[i], 1)

\* The rows a where operator evaluated its predicate on: all of them up to
\* the first panic or error.
RECURSIVE Evaluated(_, _, _, _)
Evaluated(P, cols, data, i) ==
    /\ i \in 1..Len(data)
    /\ i > 1 => /\ Evaluated(P, cols, data, i - 1)
                /\ evalExpr(P, identsAt(cols, data, i - 1).idents).err = ""
    /\ ~identsAt(cols, data, i).panic

EvalSucceeded == pc \in {"ops", "returned"} /\ ret.err = ""

(***************************************************************************)
(* The claims.                                                             *)
(***************************************************************************)

\* C1: when the predicate P evaluates without error on every row of the
\* input, where P yields a table with the input's columns whose rows are
\* exactly the input rows on which P is truthy, in order and unaltered.
C1_WhereKeepsTruthyRows ==
    (/\ lastOp.k = "where"
     /\ \A i \in 1..Len(prev.Data) :
            RowEval(lastOp.x, prev.Columns, prev.Data[i]).err = "")
    => /\ EvalSucceeded
       /\ View(curr, mem) =
            [Columns |-> prev.Columns,
             Data |-> SelectSeq(prev.Data,
                        LAMBDA row :
                            stringToBool(RowEval(lastOp.x, prev.Columns, row).val))]

\* C2: take N keeps the columns and exactly the first min(N, L) rows when N
\* is a non-negative integer; a negative or non-integer N makes Eval return
\* an error and no table.
C2_TakePrefixOrError ==
    lastOp.k = "take" =>
        LET rc == evalExpr(lastOp.x, <<>>)
            n  == Atoi(rc.val)
        IN  rc.err = "" =>
                IF n.err = "" /\ n.n >= 0
                THEN /\ EvalSucceeded
                     /\ curr.Columns = prev.Columns
                     /\ Len(Rows(curr, mem)) =
                            (IF n.n < Len(prev.Data) THEN n.n ELSE Len(prev.Data))
                     /\ \A i \in 1..Len(Rows(curr, mem)) :
                            Rows(curr, mem)[i] = prev.Data[i]
                ELSE pc = "returned" /\ ret.isNil /\ ret.err # ""

C2_Witness ==
    /\ lastOp.k = "take" /\ lastOp.x = Lit(Str1)
    /\ pc = "returned" /\ ret.err = ""
    /\ Len(prev.Data) = 2 /\ ret.table.Data = <<prev.Data[1]>>

\* The operands the and/or claim is tried on: truthy ones, falsy ones and
\* ones that fail (an unknown function, an identifier the row does not bind).
Operands ==
    { Ident("a"), Ident("b"), Lit(Str0), Lit(<<"2">>), Call("tolower", <<Ident("a")>>) }

\* C3: a and b is a when a is falsy and b otherwise; a or b is a when a is
\* truthy and b otherwise; the result is the operand's own value, and an
\* error of b is not reported when b is skipped.
C3_AndOrShortCircuit ==
    pc = "ops" =>
        \A i \in 1..curr.Data.len : \A op \in {"and", "or"} :
            \A x \in Operands, y \in Operands :
                LET idents == RowIdents(curr.Columns, Rows(curr, mem)[i])
                    a == evalExpr(x, idents)
                    b == evalExpr(y, idents)
                    r == evalExpr(Binary(op, x, y), idents)
                    skip == IF op = "and" THEN ~stringToBool(a.val)
                            ELSE stringToBool(a.val)
                IN  a.err = "" => r = (IF skip THEN a ELSE b)

C3_Witness ==
    /\ lastOp = [k |-> "where",
                 x |-> Binary("or", Ident("a"), Call("tolower", <<Ident("a")>>))]
    /\ pc = "returned" /\ ret.err = ""
    /\ Len(prev.Data) = 2 /\ ret.table.Data = prev.Data

\* Whether an expression mentions the identifier of that name.
RECURSIVE Mentions(_, _)
Mentions(x, name) ==
    \/ x.k = "QualifiedIdent" /\ x.v = <<name>>
    \/ \E i \in 1..Len(x.xs) : Mentions(x.xs[i], name)

\* C4: in every where predicate, on every row, the identifiers true, false
\* and null evaluate to "1", "0" and "".
C4_ConstantsAlwaysBind ==
    (lastOp.k = "where" /\ \E c \in DOMAIN WhereIdents : Mentions(lastOp.x, c)) =>
        \A i \in 1..Len(prev.Data) :
            Evaluated(lastOp.x, prev.Columns, prev.Data, i) =>
                LET idents == identsAt(prev.Columns, prev.Data, i).idents
                IN  /\ evalExpr(Ident("true"), idents) = Ok(Str1)
                    /\ evalExpr(Ident("false"), idents) = Ok(Str0)
                    /\ evalExpr(Ident("null"), idents) = Ok(StrEmpty)

\* C5: Eval never changes the caller's tables: the Name, the Columns and
\* every row and cell of each of them are what they were at the call.
C5_CallerTablesUnchanged == CallerView(tables, mem) = callerTables

C5_Witness ==
    /\ lastOp.k = "where" /\ pc = "returned" /\ ret.err = ""
    /\ nops = 1
    /\ Len(prev.Data) = 2
    /\ ret.table.Data = <<prev.Data[2]>>
    /\ prev.Data[1] # prev.Data[2]

\* C6: evaluation ends with a table or an error, never with a panic.
C6_NeverPanics == pc # "panicked"

\* C9: whether where P keeps a row depends on the row, the columns and P
\* only: two tables of the same columns that both hold a row r either both
\* keep it or both drop it.
C9_RowIndependence ==
    (lastOp.k = "where" /\ EvalSucceeded) =>
        \A other \in DataSets :
            LET w == WhereOf(prev.Columns, other, lastOp.x)
            IN  w.status = "ok" =>
                    \A r \in Range(prev.Data) \cap Range(other) :
                        (r \in Range(Rows(curr, mem))) <=> (r \in Range(w.table.Data))

\* C10: where P followed by where Q and where (P) and (Q) either both fail
\* or both return the same table.
C10_FiltersFuse ==
    (lastOp.k = "where" /\ pc # "panicked") =>
        \A Q \in Preds :
            LET P     == lastOp.x
                fused == WhereOf(prev.Columns, prev.Data,
                                 Binary("and", Paren(P), Paren(Q)))
                first == View(curr, mem)
                piped == IF EvalSucceeded
                         THEN WhereOf(first.Columns, first.Data, Q)
                         ELSE [status |-> "error", table |-> NoTable]
            IN  \/ piped.status = "error" /\ fused.status = "error"
                \/ piped.status = "ok" /\ fused.status = "ok"
                   /\ piped.table = fused.table


(***************************************************************************)
(* The claims about run and multiReadCloser.                               *)
(***************************************************************************)
\* The whole input as one text.
RECURSIVE WholeText(_)
WholeText(lines) ==
    IF lines = <<>> THEN <<>> ELSE Head(lines) \o <<NL>> \o WholeText(Tail(lines))

\* The statements of the input: the terminated ones, and the text after the
\* last semicolon when it holds a token.
StatementsOf(lines) ==
    LET parts == SplitStatements(WholeText(lines))
        last  == parts[Len(parts)]
    IN  SubSeq(parts, 1, Len(parts) - 1)
            \o (IF Scan(last) # <<>> THEN <<last>> ELSE <<>>)

Fails(stmt) == Compile(stmt).err # ""

\* C7: when run returns, every statement of the input was compiled, in
\* input order, whatever failed before it; the failures went to logError,
\* the SQL of the others to the output, and run returns an error exactly
\* when some statement failed.
C7_FailureDoesNotStopRun ==
    runPc = "done" =>
        LET all == StatementsOf(input)
            good == SelectSeq(all, LAMBDA stmt : ~Fails(stmt))
        IN  /\ attempted = all
            /\ logged = SelectSeq(all, Fails)
            /\ output = [i \in 1..Len(good) |-> Compile(good[i]).sql]
            /\ (runRet # "") <=> (\E i \in 1..Len(all) : Fails(all[i]))

C7_Witness ==
    /\ runPc = "done" /\ runRet # ""
    /\ Len(attempted) >= 3
    /\ Fails(attempted[1])
    /\ ~Fails(attempted[2]) /\ ~Fails(attempted[3])
    /\ Len(output) = 2

\* The bytes of all the readers, in the order of the readers.
RECURSIVE Concatenation(_)
Concatenation(n) ==
    IF n = 0 THEN <<>> ELSE Concatenation(n - 1) \o Bytes(n, 0, rdSize[n])

IsPrefix(p, q) == Len(p) <= Len(q) /\ SubSeq(q, 1, Len(p)) = p

AllExhausted == \A r \in DOMAIN rdEOF : rdEOF[r]

AllDrained == \A r \in DOMAIN rdLeft : rdLeft[r] = 0

\* C8 as claimed: Read reports io.EOF only when every reader has been
\* exhausted, that is, has no byte left to deliver.
C8_EOFOnlyWhenAllExhausted == lastRead.err = "EOF" => AllDrained

\* C8 as amended: the readers are read in order, a reader that reported
\* io.EOF is closed, none is ever closed twice, after Close every reader is
\* closed exactly once, and Read reports io.EOF only when every reader has
\* reported io.EOF (all bytes then being delivered) or Close has been called.
C8_EOFOnlyWhenAllExhaustedOrClosed ==
    /\ IsPrefix(delivered, Concatenation(Len(rdSize)))
    /\ \A r \in DOMAIN rdEOF : rdEOF[r] => rdClosed[r] = 1
    /\ \A r \in DOMAIN rdClosed : rdClosed[r] <= 1
    /\ closeCalled => \A r \in DOMAIN rdClosed : rdClosed[r] = 1
    /\ lastRead.err = "EOF" => (AllExhausted \/ closeCalled)
    /\ (lastRead.err = "EOF" /\ ~closeCalled) =>
            delivered = Concatenation(Len(rdSize))

C8_Witness ==
    /\ Len(rdSize) = 2 /\ rdSize[1] > 0 /\ rdSize[2] > 0
    /\ lastRead.err = "EOF" /\ AllExhausted
    /\ delivered = Concatenation(2)
    /\ closeCalled
    /\ \A r \in DOMAIN rdClosed : rdClosed[r] = 1

=============================================================================
